---------------------------- MODULE Spec2Model ----------------------------
(***************************************************************************)
(* A model of src/app.py, the Streamlit page of the AI Public Speaking     *)
(* Coach: the cached model loader, the cached MFCC feature extraction with *)
(* its fixed-length normalisation, the TFLite inference call, the argmax   *)
(* / label / advice derivation and the page script that ties them          *)
(* together around a temporary .wav file.                                  *)
(*                                                                         *)
(* Python values are records tagged with their type: None, an ndarray      *)
(* (data = a sequence of rows, each a sequence of entries), an             *)
(* Interpreter handle.  Floats are integers.  Indices into Python          *)
(* sequences are 0-based in the code and kept 0-based in the variables     *)
(* that hold them (idx_max); TLA+ sequences are indexed from 1.            *)
(***************************************************************************)
EXTENDS Integers, Sequences, FiniteSets, TLC

VARIABLES
    \* ---- the process and its environment (Spec)
    artifact,        \* what is at TFLITE_MODEL_PATH on disk
    resource_cache,  \* st.cache_resource's entry for load_tflite_model()
    data_cache,      \* st.cache_data's entries for extract_features_from_path
    files,           \* the temporary directory: path -> content
    interp,          \* tensors of the live tf.lite.Interpreter
    \* ---- one run of the page script (its variables after the run)
    interpreter,     \* line 78
    audio_file,      \* line 84
    temp_path,       \* line 101
    features,        \* line 103
    prediction,      \* line 108
    idx_max,         \* line 115
    emosi_dominan,   \* line 116
    confidence,      \* line 117
    feedback,        \* line 125
    shown,           \* result elements rendered by this run
    msgs,            \* messages rendered by this run
    classify_calls,  \* run_tflite_inference calls made by this run
    load_failed,     \* history: load_tflite_model has returned None
    \* ---- direct calls of the functions (SpecExtract, SpecAdvise)
    call,            \* the arguments of the last direct call
    ret,             \* its return value
    prev,            \* the direct call before it
    \* ---- two sessions inside run_tflite_inference (SpecConc)
    pc,              \* session -> position in run_tflite_inference
    input_data,      \* session -> its input tensor (line 107)
    output_data      \* session -> what line 73 gave it

vars == <<artifact, resource_cache, data_cache, files, interp, interpreter,
          audio_file, temp_path, features, prediction, idx_max,
          emosi_dominan, confidence, feedback, shown, msgs, classify_calls,
          load_failed, call, ret, prev, pc, input_data, output_data>>

-----------------------------------------------------------------------------
(* Bounds of the model.                                                    *)

\* MFCC coefficients take the values -1 .. MaxCoef - 2.
MaxCoef == 4
\* Direct calls of extract try frame counts 1 .. MaxSmallT and the three
\* frame counts around every max_pad_len tried.
MaxSmallT == 3
\* Probability entries are drawn from 0 .. MaxProb.
MaxProb == 2
\* The temporary directory hands out MaxPaths different names.
MaxPaths == 1

-----------------------------------------------------------------------------
(* Python values.                                                          *)

None == [type |-> "NoneType"]
ndarray(m) == [type |-> "ndarray", data |-> m]
is_none(v) == v.type = "NoneType"

\* What a direct call returned.
returned(v) == [type |-> "returned", value |-> v]

\* ndarray.shape of a 2-D array
shape(m) == <<Len(m), IF Len(m) = 0 THEN 0 ELSE Len(m[1])>>

zeros(n) == [i \in 1..n |-> 0]

Min(a, b) == IF a < b THEN a ELSE b

-----------------------------------------------------------------------------
(* Labels (line 21).                                                       *)

\* The list literal of line 21, in the order written there.
label_literal ==
    <<"angry", "calm", "disgust", "fearful", "happy", "neutral", "sad",
      "surprised">>

\* The characters of each label as code points, which is what Python's
\* string comparison orders by.
code_points ==
    [angry     |-> <<97, 110, 103, 114, 121>>,
     calm      |-> <<99, 97, 108, 109>>,
     disgust   |-> <<100, 105, 115, 103, 117, 115, 116>>,
     fearful   |-> <<102, 101, 97, 114, 102, 117, 108>>,
     happy     |-> <<104, 97, 112, 112, 121>>,
     neutral   |-> <<110, 101, 117, 116, 114, 97, 108>>,
     sad       |-> <<115, 97, 100>>,
     surprised |-> <<115, 117, 114, 112, 114, 105, 115, 101, 100>>]

RECURSIVE seq_lt(_, _)
seq_lt(s, t) ==
    IF t = <<>> THEN FALSE
    ELSE IF s = <<>> THEN TRUE
    ELSE IF s[1] < t[1] THEN TRUE
    ELSE IF s[1] > t[1] THEN FALSE
    ELSE seq_lt(Tail(s), Tail(t))

str_lt(a, b) == seq_lt(code_points[a], code_points[b])

RECURSIVE insert_sorted(_, _)
insert_sorted(x, s) ==
    IF s = <<>> THEN <<x>>
    ELSE IF str_lt(x, s[1]) THEN <<x>> \o s
    ELSE <<s[1]>> \o insert_sorted(x, Tail(s))

\* Python's sorted(): ascending, stable.
RECURSIVE sorted(_)
sorted(s) ==
    IF s = <<>> THEN <<>>
    ELSE insert_sorted(s[Len(s)], sorted(SubSeq(s, 1, Len(s) - 1)))

EMOTION_LABELS == sorted(label_literal)

-----------------------------------------------------------------------------
(* extract_features_from_path (lines 38-51).                               *)

\* Default arguments of line 38.
N_MFCC == 40
MAX_PAD_LEN == 862

\* Audio content.  A clip that decodes is described by the number of MFCC
\* frames librosa computes for its first 3.0 s and by a seed that
\* determines its coefficients; the zero-byte clip does not decode.
zero_byte == [decodes |-> FALSE]
clip(T, seed) == [decodes |-> TRUE, T |-> T, seed |-> seed]

\* Absent file.
no_file == [decodes |-> FALSE, absent |-> TRUE]

coef(seed, r, c) == ((seed * r + c + seed) % MaxCoef) - 1

\* librosa.load followed by librosa.feature.mfcc (lines 41-42) on content
\* that decodes: an (n_mfcc, T) matrix.
librosa_mfcc(content, n_mfcc) ==
    [r \in 1..n_mfcc |-> [c \in 1..content.T |-> coef(content.seed, r, c)]]

\* np.pad(mfcc, ((0, 0), (0, pad_width)), mode='constant') (line 45)
np_pad_right(m, pad_width) ==
    [r \in 1..Len(m) |-> m[r] \o zeros(pad_width)]

\* mfcc[:, :n] (line 47)
slice_cols(m, n) ==
    [r \in 1..Len(m) |-> SubSeq(m[r], 1, Min(n, Len(m[r])))]

\* Lines 43-47 with the zeros put before the frames instead of after.
pad_or_truncate_left(mfcc, max_pad_len) ==
    IF shape(mfcc)[2] < max_pad_len
    THEN [r \in 1..Len(mfcc) |->
             zeros(max_pad_len - shape(mfcc)[2]) \o mfcc[r]]
    ELSE slice_cols(mfcc, max_pad_len)

\* Lines 43-47 without the truncation of the else branch.
pad_only(mfcc, max_pad_len) ==
    IF shape(mfcc)[2] < max_pad_len
    THEN np_pad_right(mfcc, max_pad_len - shape(mfcc)[2])
    ELSE mfcc

\* Lines 43-47.
pad_or_truncate(mfcc, max_pad_len) ==
    IF shape(mfcc)[2] < max_pad_len
    THEN np_pad_right(mfcc, max_pad_len - shape(mfcc)[2])
    ELSE slice_cols(mfcc, max_pad_len)

err_audio == "Error saat memproses file audio"

\* The function body: its return value and the st.error it renders.
extract_features_from_path(fsys, file_path, n_mfcc, max_pad_len) ==
    IF fsys[file_path].decodes
    THEN [value |-> ndarray(pad_or_truncate(
                        librosa_mfcc(fsys[file_path], n_mfcc), max_pad_len)),
          messages |-> {}]
    ELSE [value |-> None, messages |-> {err_audio}]

-----------------------------------------------------------------------------
(* st.cache_data around extract_features_from_path (line 37).              *)

\* The names tempfile.NamedTemporaryFile can hand out.
Paths == 1..MaxPaths

\* A cache entry holds the return value and the st elements the function
\* rendered, which Streamlit replays on a hit.  The key is the argument
\* tuple; the page script passes file_path only, so the key is the path.
cache_miss == [hit |-> FALSE]
cache_entry(r) == [hit |-> TRUE, value |-> r.value, messages |-> r.messages]

cache_data_call(cache, fsys, file_path) ==
    IF cache[file_path].hit
    THEN [value |-> cache[file_path].value,
          messages |-> cache[file_path].messages,
          cache |-> cache]
    ELSE LET r == extract_features_from_path(fsys, file_path, N_MFCC,
                                             MAX_PAD_LEN)
         IN [value |-> r.value, messages |-> r.messages,
             cache |-> [cache EXCEPT ![file_path] = cache_entry(r)]]

-----------------------------------------------------------------------------
(* load_tflite_model (lines 25-35) and st.cache_resource around it.        *)

\* What can be at TFLITE_MODEL_PATH: nothing, a file that is no model, or
\* a model with some input shape.
missing_artifact == [kind |-> "missing"]
malformed_artifact == [kind |-> "malformed"]
model_artifact(input_shape) == [kind |-> "model", input_shape |-> input_shape]

\* The input shape the page script produces at line 107.
page_input_shape == <<1, N_MFCC, MAX_PAD_LEN, 1>>
other_input_shape == <<1, N_MFCC, 174, 1>>

Artifacts ==
    {missing_artifact, malformed_artifact, model_artifact(page_input_shape),
     model_artifact(other_input_shape)}

Interpreter(input_shape) == [type |-> "Interpreter", input_shape |-> input_shape]

err_load == "Error saat memuat model TFLite"
info_convert == "Pastikan Anda sudah menjalankan skrip 'convert_to_tflite.py'"

load_tflite_model(art) ==
    IF art.kind = "model"
    THEN [value |-> Interpreter(art.input_shape), messages |-> {}]
    ELSE [value |-> None, messages |-> {err_load, info_convert}]

\* A cache that does not keep a None result, so a failed load is retried.
cache_resource_call_skipping_none(cache, art) ==
    IF cache.hit
    THEN [value |-> cache.value, messages |-> cache.messages, cache |-> cache]
    ELSE LET r == load_tflite_model(art)
         IN [value |-> r.value, messages |-> r.messages,
             cache |-> IF is_none(r.value) THEN cache ELSE cache_entry(r)]

\* st.cache_resource keeps whatever the function returned, None included,
\* and the st elements it rendered.
cache_resource_call(cache, art) ==
    IF cache.hit
    THEN [value |-> cache.value, messages |-> cache.messages, cache |-> cache]
    ELSE LET r == load_tflite_model(art)
         IN [value |-> r.value, messages |-> r.messages,
             cache |-> cache_entry(r)]

-----------------------------------------------------------------------------
(* run_tflite_inference (lines 67-74) on the interpreter's tensors.        *)

\* features[np.newaxis, ..., np.newaxis].astype(np.float32) (line 107)
add_batch_and_channel(a) ==
    [type |-> "ndarray",
     shape |-> <<1, shape(a.data)[1], shape(a.data)[2], 1>>,
     data |-> a.data]

\* The network of the artifact: 8 outputs, a fixed function of the input.
digest(m) == 100 + m[1][1] + 3 * m[1][2] + 9 * m[Len(m)][1]
model_output(m) == [k \in 1..8 |-> (digest(m) + k * k) % (MaxProb + 1)]

\* Tensors of a freshly allocated interpreter.
fresh_tensors == [input |-> None, output |-> None]

\* A set_tensor that accepts any shape.
set_tensor_unchecked(handle, tensors, x) ==
    [raised |-> FALSE, tensors |-> [tensors EXCEPT !.input = x]]

\* interpreter.set_tensor: ValueError on a shape mismatch, else the input
\* tensor is overwritten.
set_tensor(handle, tensors, x) ==
    IF x.shape /= handle.input_shape
    THEN [raised |-> TRUE, tensors |-> tensors]
    ELSE [raised |-> FALSE, tensors |-> [tensors EXCEPT !.input = x]]

\* interpreter.invoke: the output tensor becomes the network's output for
\* whatever the input tensor holds, with a leading batch axis.
invoke(tensors) ==
    [tensors EXCEPT !.output = <<model_output(tensors.input.data)>>]

\* interpreter.get_tensor of the output
get_tensor(tensors) == tensors.output

run_tflite_inference(handle, tensors, x) ==
    LET s == set_tensor(handle, tensors, x)
    IN IF s.raised
       THEN [raised |-> TRUE, tensors |-> s.tensors]
       ELSE LET t == invoke(s.tensors)
            IN [raised |-> FALSE, tensors |-> t, value |-> get_tensor(t)[1]]

-----------------------------------------------------------------------------
(* Result derivation (lines 115-125).                                      *)

\* A scan that moves on to a later entry that is equal: the last maximum.
RECURSIVE argmax_scan_last(_, _, _)
argmax_scan_last(v, i, best) ==
    IF i > Len(v) THEN best
    ELSE argmax_scan_last(v, i + 1, IF v[i] >= v[best] THEN i ELSE best)

\* np.argmax of a 1-D array: a left-to-right scan that keeps the position
\* of the largest entry seen so far and moves on only to a larger one.
RECURSIVE argmax_scan(_, _, _)
argmax_scan(v, i, best) ==
    IF i > Len(v) THEN best
    ELSE argmax_scan(v, i + 1, IF v[i] > v[best] THEN i ELSE best)

\* 0-based, as numpy returns it.
np_argmax(v) == argmax_scan(v, 2, 1) - 1

\* feedback_dict (lines 55-64); the leading emoji of each text is left out.
feedback_dict ==
    [angry |-> "Terdeteksi marah. Suara Anda terdengar tegas. Untuk beberapa konteks, ini bagus untuk penekanan. Namun, untuk audiens umum, coba bicara dengan intonasi lebih kalem dan hindari tekanan berlebih.",
     happy |-> "Bagus! Suaramu terdengar menyenangkan dan bersemangat. Energi positif seperti ini sangat menular ke audiens. Pertahankan!",
     sad |-> "Terdeteksi sedih. Jika ini disengaja untuk story-telling, ini efektif. Jika tidak, coba tingkatkan semangat dan naikkan intonasi untuk menjaga perhatian audiens.",
     neutral |-> "Netral. Suara Anda terdengar jelas namun kurang menunjukkan emosi. Coba tambahkan lebih banyak variasi intonasi (naik-turun) agar tidak terdengar datar dan lebih menarik.",
     fearful |-> "Terdeteksi takut atau gugup. Ini wajar. Tenangkan diri sebelum bicara, ambil napas dalam, dan latih artikulasi Anda. Berbicara sedikit lebih lambat bisa membantu.",
     calm |-> "Sangat baik! Suara Anda terdengar tenang, terkontrol, dan nyaman untuk didengar. Ini menciptakan suasana yang meyakinkan dan dapat dipercaya.",
     surprised |-> "Terdengar terkejut. Emosi ini sangat bagus untuk digunakan sebagai penekanan pada poin-poin penting atau saat menyampaikan sesuatu yang tidak terduga untuk membangun klimaks.",
     disgust |-> "Terdeteksi emosi negatif (jijik/tidak suka). Hati-hati dengan nada ini karena bisa membuat audiens merasa tidak nyaman atau tersinggung. Pastikan nada Anda sesuai dengan pesan yang ingin disampaikan."]

fallback_feedback == "Latih lagi artikulasi dan emosi agar lebih meyakinkan."

\* A dictionary in which 'calm' carries the text of 'sad'.
get_feedback_sad_for_calm(label) ==
    IF label = "calm" THEN feedback_dict["sad"]
    ELSE IF label \in DOMAIN feedback_dict THEN feedback_dict[label]
    ELSE fallback_feedback

\* feedback_dict.get(label, fallback) (line 65)
get_feedback(label) ==
    IF label \in DOMAIN feedback_dict THEN feedback_dict[label]
    ELSE fallback_feedback

-----------------------------------------------------------------------------
(* The page script (lines 78-137): one run, top to bottom.                 *)

\* A script variable the run never assigned.
Unset == [type |-> "unset"]

\* st.sidebar.file_uploader's value: None or the uploaded file.
UploadedFile(content) == [type |-> "UploadedFile", content |-> content]

warn_not_ready == "Aplikasi belum siap. Model TFLite tidak dapat dimuat."
info_upload == "Silakan upload file audio untuk memulai analisis."
\* An exception that leaves the script is rendered by Streamlit in the page.
exc_oserror == "OSError"
exc_valueerror == "ValueError: Cannot set tensor: Dimension mismatch"

\* Elements rendered at lines 95-96, and the result elements of lines
\* 118-135.
analysis_header == {"header", "audio"}
result_elements == {"metric", "advice", "chart"}

\* The variables of a run that stops before line 99.
no_analysis ==
    [temp_path |-> Unset, features |-> Unset, prediction |-> Unset,
     idx_max |-> Unset, emosi_dominan |-> Unset, confidence |-> Unset,
     feedback |-> Unset, shown |-> {}, classify_calls |-> 0]

\* Lines 115-135, given the prediction of line 108.
derive(pred) ==
    LET i == np_argmax(pred)
    IN [prediction |-> pred, idx_max |-> i,
        emosi_dominan |-> EMOTION_LABELS[i + 1],
        confidence |-> pred[i + 1],
        feedback |-> get_feedback(EMOTION_LABELS[i + 1]),
        shown |-> result_elements]

not_derived ==
    [prediction |-> Unset, idx_max |-> Unset, emosi_dominan |-> Unset,
     confidence |-> Unset, feedback |-> Unset, shown |-> {}]

\* Lines 107-135, given features that are not None.
infer_and_render(h, tensors, feats) ==
    LET inf == run_tflite_inference(h, tensors, add_batch_and_channel(feats))
    IN IF inf.raised
       THEN [classify_calls |-> 1, interp |-> inf.tensors,
             messages |-> {exc_valueerror}] @@ not_derived
       ELSE [classify_calls |-> 1, interp |-> inf.tensors,
             messages |-> {}] @@ derive(inf.value)

\* A variant that substitutes silence for features that are None.
analyse_defaulting(h, tensors, feats) ==
    IF is_none(feats)
    THEN infer_and_render(h, tensors,
             ndarray([r \in 1..N_MFCC |-> zeros(MAX_PAD_LEN)]))
    ELSE infer_and_render(h, tensors, feats)

\* Lines 106-135, given the features of line 103.
analyse(h, tensors, feats) ==
    IF is_none(feats)
    THEN [classify_calls |-> 0, interp |-> tensors, messages |-> {}]
         @@ not_derived
    ELSE infer_and_render(h, tensors, feats)

\* Lines 99-135 when the write of line 100 succeeds.
write_extract_remove(dc, fsys, h, tensors, upload, path) ==
    LET written == [fsys EXCEPT ![path] = upload.content]
        ex == cache_data_call(dc, written, path)
        removed == [written EXCEPT ![path] = no_file]
        a == analyse(h, tensors, ex.value)
    IN [data_cache |-> ex.cache, files |-> removed, interp |-> a.interp,
        temp_path |-> path, features |-> ex.value,
        prediction |-> a.prediction, idx_max |-> a.idx_max,
        emosi_dominan |-> a.emosi_dominan, confidence |-> a.confidence,
        feedback |-> a.feedback, shown |-> analysis_header \cup a.shown,
        msgs |-> ex.messages \cup a.messages,
        classify_calls |-> a.classify_calls]

\* Lines 99-101 when fp.write raises: the with block closes the file, which
\* delete=False keeps, and the exception leaves the script.
write_fails(dc, fsys, tensors, path) ==
    [data_cache |-> dc, files |-> [fsys EXCEPT ![path] = zero_byte],
     interp |-> tensors, temp_path |-> Unset, features |-> Unset,
     prediction |-> Unset, idx_max |-> Unset, emosi_dominan |-> Unset,
     confidence |-> Unset, feedback |-> Unset, shown |-> analysis_header,
     msgs |-> {exc_oserror}, classify_calls |-> 0]

\* Lines 91-137, given the interpreter of line 78 and the upload of line 84.
page_body(h, dc, fsys, tensors, upload, path, write_ok) ==
    IF is_none(h)
    THEN [data_cache |-> dc, files |-> fsys, interp |-> tensors,
          msgs |-> {warn_not_ready}] @@ no_analysis
    ELSE IF is_none(upload)
    THEN [data_cache |-> dc, files |-> fsys, interp |-> tensors,
          msgs |-> {info_upload}] @@ no_analysis
    ELSE IF write_ok
    THEN write_extract_remove(dc, fsys, h, tensors, upload, path)
    ELSE write_fails(dc, fsys, tensors, path)

Uploads == {None} \cup {UploadedFile(c) :
                c \in {zero_byte, clip(1, 1), clip(MaxSmallT, 2)}}

\* One run of the script, triggered by the user: upload is what the
\* uploader widget holds, path the name NamedTemporaryFile picks (one that
\* does not exist yet) and write_ok whether fp.write succeeds.
Run(upload, path, write_ok) ==
    LET load == cache_resource_call(resource_cache, artifact)
        body == page_body(load.value, data_cache, files, interp, upload,
                          path, write_ok)
    IN /\ IF ~is_none(load.value) /\ ~is_none(upload)
          THEN files[path] = no_file
          ELSE path = 1 /\ write_ok   \* neither is read by this run
       /\ resource_cache' = load.cache
       /\ interpreter' = load.value
       /\ load_failed' = (load_failed \/ is_none(load.value))
       /\ audio_file' = upload
       /\ data_cache' = body.data_cache
       /\ files' = body.files
       /\ interp' = body.interp
       /\ temp_path' = body.temp_path
       /\ features' = body.features
       /\ prediction' = body.prediction
       /\ idx_max' = body.idx_max
       /\ emosi_dominan' = body.emosi_dominan
       /\ confidence' = body.confidence
       /\ feedback' = body.feedback
       /\ shown' = body.shown
       /\ msgs' = load.messages \cup body.msgs
       /\ classify_calls' = body.classify_calls
       /\ UNCHANGED <<artifact, call, ret, prev, pc, input_data, output_data>>

\* The environment puts something else at TFLITE_MODEL_PATH.
ReplaceArtifact(a) ==
    /\ a /= artifact
    /\ artifact' = a
    /\ UNCHANGED <<resource_cache, data_cache, files, interp, interpreter,
                   audio_file, temp_path, features, prediction, idx_max,
                   emosi_dominan, confidence, feedback, shown, msgs,
                   classify_calls, load_failed, call, ret, prev, pc,
                   input_data, output_data>>

\* Before the first run of the script.
InitProcess ==
    /\ resource_cache = cache_miss
    /\ data_cache = [p \in Paths |-> cache_miss]
    /\ files = [p \in Paths |-> no_file]
    /\ interp = fresh_tensors
    /\ interpreter = Unset
    /\ audio_file = Unset
    /\ temp_path = Unset
    /\ features = Unset
    /\ prediction = Unset
    /\ idx_max = Unset
    /\ emosi_dominan = Unset
    /\ confidence = Unset
    /\ feedback = Unset
    /\ shown = {}
    /\ msgs = {}
    /\ classify_calls = 0
    /\ load_failed = FALSE

InitCalls ==
    /\ call = Unset
    /\ ret = Unset
    /\ prev = Unset

InitSessions ==
    /\ pc = <<>>
    /\ input_data = <<>>
    /\ output_data = <<>>

Init ==
    /\ artifact \in Artifacts
    /\ InitProcess
    /\ InitCalls
    /\ InitSessions

Next ==
    \/ \E upload \in Uploads, path \in Paths, write_ok \in BOOLEAN :
           Run(upload, path, write_ok)
    \/ \E a \in Artifacts : ReplaceArtifact(a)

Spec == Init /\ [][Next]_vars

-----------------------------------------------------------------------------
(* Direct calls of extract_features_from_path: the arguments are drawn by  *)
(* the initial state and one action applies the function.                  *)

\* Seeds 0 .. MaxSeed give the clips their coefficients.
MaxSeed == 2

PadLens == {1, 2, MAX_PAD_LEN}
NMfccs == {1, N_MFCC}
FrameCounts ==
    (1..MaxSmallT) \cup
    {t \in UNION {{n - 1, n, n + 1} : n \in PadLens} : t >= 1}
ExtractContents ==
    {zero_byte} \cup {clip(T, s) : T \in FrameCounts, s \in 0..MaxSeed}

InitExtract ==
    /\ artifact = missing_artifact
    /\ InitProcess
    /\ InitSessions
    /\ call \in [fn : {"extract_features_from_path"},
                 content : ExtractContents,
                 n_mfcc : NMfccs, max_pad_len : PadLens]
    /\ ret = Unset
    /\ prev = Unset

CallExtract ==
    /\ call.fn = "extract_features_from_path"
    /\ ret = Unset
    /\ ret' = returned(
           extract_features_from_path([p \in Paths |-> call.content], 1,
                                      call.n_mfcc, call.max_pad_len).value)
    /\ UNCHANGED <<artifact, resource_cache, data_cache, files, interp,
                   interpreter, audio_file, temp_path, features, prediction,
                   idx_max, emosi_dominan, confidence, feedback, shown, msgs,
                   classify_calls, load_failed, call, prev, pc, input_data,
                   output_data>>

SpecExtract == InitExtract /\ [][CallExtract]_vars

-----------------------------------------------------------------------------
(* Direct derivations of the result (lines 115-125) from a prediction the  *)
(* initial state draws.                                                    *)

Predictions == [1..8 -> 0..MaxProb]

InitDerive ==
    /\ artifact = missing_artifact
    /\ InitCalls
    /\ InitSessions
    /\ resource_cache = cache_miss
    /\ data_cache = [p \in Paths |-> cache_miss]
    /\ files = [p \in Paths |-> no_file]
    /\ interp = fresh_tensors
    /\ interpreter = Unset
    /\ audio_file = Unset
    /\ temp_path = Unset
    /\ features = Unset
    /\ prediction \in Predictions
    /\ idx_max = Unset
    /\ emosi_dominan = Unset
    /\ confidence = Unset
    /\ feedback = Unset
    /\ shown = {}
    /\ msgs = {}
    /\ classify_calls = 0
    /\ load_failed = FALSE

Derive ==
    /\ shown = {}
    /\ idx_max' = derive(prediction).idx_max
    /\ emosi_dominan' = derive(prediction).emosi_dominan
    /\ confidence' = derive(prediction).confidence
    /\ feedback' = derive(prediction).feedback
    /\ shown' = derive(prediction).shown
    /\ UNCHANGED <<artifact, resource_cache, data_cache, files, interp,
                   interpreter, audio_file, temp_path, features, prediction,
                   msgs, classify_calls, load_failed, call, ret, prev, pc,
                   input_data, output_data>>

SpecDerive == InitDerive /\ [][Derive]_vars

-----------------------------------------------------------------------------
(* Direct calls of get_feedback, one after another.                        *)

\* Labels outside the known set: other spellings and other words.
UnknownLabels == {"", "Angry", "ANGRY", "happy ", "bored"}
Labels == {label_literal[i] : i \in 1..Len(label_literal)} \cup UnknownLabels

InitAdvise ==
    /\ artifact = missing_artifact
    /\ InitProcess
    /\ InitSessions
    /\ call \in [fn : {"get_feedback"}, label : Labels]
    /\ ret = Unset
    /\ prev = Unset

\* The pending call returns.
ReturnFeedback ==
    /\ call.fn = "get_feedback"
    /\ ret = Unset
    /\ ret' = returned(get_feedback(call.label))
    /\ UNCHANGED <<artifact, resource_cache, data_cache, files, interp,
                   interpreter, audio_file, temp_path, features, prediction,
                   idx_max, emosi_dominan, confidence, feedback, shown, msgs,
                   classify_calls, load_failed, call, prev, pc, input_data,
                   output_data>>

\* The next call is made; the one before is kept for comparison.
CallFeedback(label) ==
    /\ call.fn = "get_feedback"
    /\ ret /= Unset
    /\ prev' = [label |-> call.label, ret |-> ret.value]
    /\ call' = [fn |-> "get_feedback", label |-> label]
    /\ ret' = Unset
    /\ UNCHANGED <<artifact, resource_cache, data_cache, files, interp,
                   interpreter, audio_file, temp_path, features, prediction,
                   idx_max, emosi_dominan, confidence, feedback, shown, msgs,
                   classify_calls, load_failed, pc, input_data, output_data>>

NextAdvise ==
    \/ ReturnFeedback
    \/ \E label \in Labels : CallFeedback(label)

SpecAdvise == InitAdvise /\ [][NextAdvise]_vars

-----------------------------------------------------------------------------
(* Two browser sessions.  Streamlit runs each session's script in its own  *)
(* thread and st.cache_resource hands both the same Interpreter, so their  *)
(* calls of run_tflite_inference interleave line by line.                  *)

Sessions == {1, 2}

\* The input tensors line 107 builds from the clips that decode.
SessionInputs ==
    {add_batch_and_channel(
         extract_features_from_path([p \in Paths |-> u.content], 1, N_MFCC,
                                    MAX_PAD_LEN).value) :
     u \in {v \in Uploads \ {None} : v.content.decodes}}

InitConc ==
    /\ artifact = model_artifact(page_input_shape)
    /\ resource_cache = cache_entry(load_tflite_model(artifact))
    /\ interpreter = resource_cache.value
    /\ interp = fresh_tensors
    /\ data_cache = [p \in Paths |-> cache_miss]
    /\ files = [p \in Paths |-> no_file]
    /\ audio_file = Unset
    /\ temp_path = Unset
    /\ features = Unset
    /\ prediction = Unset
    /\ idx_max = Unset
    /\ emosi_dominan = Unset
    /\ confidence = Unset
    /\ feedback = Unset
    /\ shown = {}
    /\ msgs = {}
    /\ classify_calls = 0
    /\ load_failed = FALSE
    /\ InitCalls
    /\ pc = [s \in Sessions |-> "line71"]
    /\ input_data \in [Sessions -> SessionInputs]
    /\ output_data = [s \in Sessions |-> Unset]

\* Line 71.
SetTensor(s) ==
    /\ pc[s] = "line71"
    /\ LET r == set_tensor(interpreter, interp, input_data[s])
       IN /\ interp' = r.tensors
          /\ pc' = [pc EXCEPT ![s] = IF r.raised THEN "raised" ELSE "line72"]
    /\ UNCHANGED <<artifact, resource_cache, data_cache, files, interpreter,
                   audio_file, temp_path, features, prediction, idx_max,
                   emosi_dominan, confidence, feedback, shown, msgs,
                   classify_calls, load_failed, call, ret, prev, input_data,
                   output_data>>

\* Line 72.
Invoke(s) ==
    /\ pc[s] = "line72"
    /\ interp' = invoke(interp)
    /\ pc' = [pc EXCEPT ![s] = "line73"]
    /\ UNCHANGED <<artifact, resource_cache, data_cache, files, interpreter,
                   audio_file, temp_path, features, prediction, idx_max,
                   emosi_dominan, confidence, feedback, shown, msgs,
                   classify_calls, load_failed, call, ret, prev, input_data,
                   output_data>>

\* Lines 73-74.
GetTensor(s) ==
    /\ pc[s] = "line73"
    /\ output_data' = [output_data EXCEPT ![s] = returned(get_tensor(interp)[1])]
    /\ pc' = [pc EXCEPT ![s] = "done"]
    /\ UNCHANGED <<artifact, resource_cache, data_cache, files, interp,
                   interpreter, audio_file, temp_path, features, prediction,
                   idx_max, emosi_dominan, confidence, feedback, shown, msgs,
                   classify_calls, load_failed, call, ret, prev, input_data>>

\* The session's next request reaches line 108 with another input.
NextRequest(s, x) ==
    /\ pc[s] = "done"
    /\ input_data' = [input_data EXCEPT ![s] = x]
    /\ output_data' = [output_data EXCEPT ![s] = Unset]
    /\ pc' = [pc EXCEPT ![s] = "line71"]
    /\ UNCHANGED <<artifact, resource_cache, data_cache, files, interp,
                   interpreter, audio_file, temp_path, features, prediction,
                   idx_max, emosi_dominan, confidence, feedback, shown, msgs,
                   classify_calls, load_failed, call, ret, prev>>

NextConc ==
    \E s \in Sessions :
        \/ SetTensor(s)
        \/ Invoke(s)
        \/ GetTensor(s)
        \/ \E x \in SessionInputs : NextRequest(s, x)

SpecConc == InitConc /\ [][NextConc]_vars

-----------------------------------------------------------------------------
(* Claims about the page script.                                           *)

\* C3: the scratch file of an upload is gone once the request has ended,
\* on every exit path: after any run of the script no temporary file
\* exists.
C3_ScratchFileRemoved ==
    \A p \in Paths : files[p] = no_file

\* C4: once load_tflite_model has returned None, no run of the script
\* calls run_tflite_inference, whatever is uploaded and whatever appears at
\* the model path later; the run shows the warning and processes nothing.
C4_NoClassifyAfterLoadFailure ==
    load_failed =>
        /\ classify_calls = 0
        /\ "Aplikasi belum siap. Model TFLite tidak dapat dimuat." \in msgs
        /\ shown = {}
        /\ features = Unset
        /\ prediction = Unset
        /\ interp = fresh_tensors
        /\ \A p \in Paths : files[p] = no_file /\ ~data_cache[p].hit

\* The load failed, a model is at the path by now, and a run with an
\* upload has ended.
C4_Witness ==
    /\ load_failed
    /\ artifact = model_artifact(page_input_shape)
    /\ audio_file.type = "UploadedFile"
    /\ audio_file.content.decodes
    /\ classify_calls = 0

\* C5: a run presents either the complete result (label, confidence,
\* advice over the full 8-entry vector, chart) or none of it; when extract
\* returns None the run reports the error, makes no classify call and
\* presents no result element.
C5_CompleteOrNothing ==
    /\ shown \cap {"metric", "advice", "chart"} \in
           {{}, {"metric", "advice", "chart"}}
    /\ "metric" \in shown =>
           /\ Len(prediction) = 8
           /\ idx_max \in 0..7
           /\ emosi_dominan \in {label_literal[i] : i \in 1..8}
           /\ confidence = prediction[idx_max + 1]
           /\ feedback = feedback_dict[emosi_dominan]
    /\ "metric" \notin shown =>
           /\ prediction = Unset
           /\ emosi_dominan = Unset
           /\ confidence = Unset
           /\ feedback = Unset
    /\ features.type = "NoneType" =>
           /\ "Error saat memproses file audio" \in msgs
           /\ classify_calls = 0
           /\ shown \cap {"metric", "advice", "chart"} = {}

\* A run on a zero-byte upload ended with extract returning None.
C5_Witness ==
    /\ audio_file.type = "UploadedFile"
    /\ audio_file.content = zero_byte
    /\ features.type = "NoneType"
    /\ ~interpreter.type = "NoneType"
    /\ "Error saat memproses file audio" \in msgs

\* C7: when the input built from the features does not have the shape the
\* model expects, the inference call fails for this request only: the
\* error is rendered, no result is presented, the cached interpreter is
\* still the one the run used, the scratch file is gone, and another
\* request can be served.
C7_ShapeMismatchIsPerRequest ==
    (/\ features.type = "ndarray"
     /\ add_batch_and_channel(features).shape /= interpreter.input_shape)
    => /\ "ValueError: Cannot set tensor: Dimension mismatch" \in msgs
       /\ classify_calls = 1
       /\ shown \cap {"metric", "advice", "chart"} = {}
       /\ prediction = Unset
       /\ resource_cache.hit
       /\ resource_cache.value = interpreter
       /\ files[temp_path] = no_file
       /\ ENABLED Run(audio_file, temp_path, TRUE)

\* A run with features of shape (40, 862) met a model expecting another
\* input shape.
C7_Witness ==
    /\ features.type = "ndarray"
    /\ interpreter.input_shape = other_input_shape
    /\ "ValueError: Cannot set tensor: Dimension mismatch" \in msgs

\* C10: the features a run uses are the ones extracted from the bytes that
\* run uploaded, also when its scratch file got a name used before.
C10_FeaturesOfOwnUpload ==
    features.type /= "unset" =>
        features =
            extract_features_from_path(
                [p \in Paths |-> audio_file.content], 1, N_MFCC,
                MAX_PAD_LEN).value

-----------------------------------------------------------------------------
(* Claim about the two sessions.                                           *)

\* C6: each session that finishes run_tflite_inference has received the
\* output of the network for its own input tensor.
C6_OwnOutput ==
    \A s \in Sessions :
        pc[s] = "done" =>
            output_data[s].value = model_output(input_data[s].data)

-----------------------------------------------------------------------------
(* Claims about the pure functions.                                        *)

\* C1: with the default n_mfcc = 40 and max_pad_len = 862, every extract
\* that succeeds returns a matrix of shape exactly (40, 862), whether the
\* clip has fewer than 862 MFCC frames, exactly 862 or more.
C1_ShapeIs40By862 ==
    (/\ ret.type = "returned"
     /\ call.n_mfcc = N_MFCC
     /\ call.max_pad_len = MAX_PAD_LEN
     /\ ~is_none(ret.value))
    => shape(ret.value.data) = <<40, 862>>

\* A default-argument extract of a clip with more than 862 frames returned.
C1_Witness ==
    /\ ret.type = "returned"
    /\ call.n_mfcc = 40
    /\ call.max_pad_len = 862
    /\ call.content.decodes
    /\ call.content.T > 862
    /\ ~is_none(ret.value)
    /\ shape(ret.value.data) = <<40, 862>>

\* C2: the normalisation keeps the prefix and pads on the right with
\* zeros: with T input frames and n = max_pad_len, the output's first
\* min(T, n) columns are the input's, for T < n the columns T+1 .. n are
\* exactly zero, and for T > n the output has the first n columns only.
C2_PrefixKeptZeroPadded ==
    (ret.type = "returned" /\ ~is_none(ret.value)) =>
        LET X == librosa_mfcc(call.content, call.n_mfcc)
            Y == ret.value.data
            T == call.content.T
            n == call.max_pad_len
        IN /\ Len(Y) = Len(X)
           /\ \A r \in 1..Len(Y) :
                 /\ Len(Y[r]) = n
                 /\ \A c \in 1..Min(T, n) : Y[r][c] = X[r][c]
                 /\ T < n => \A c \in (T + 1)..n : Y[r][c] = 0

\* A clip shorter than max_pad_len was padded: its last frame is not zero
\* and the column after it is.
C2_Witness ==
    /\ ret.type = "returned"
    /\ call.content.decodes
    /\ call.content.T < call.max_pad_len
    /\ ~is_none(ret.value)
    /\ ret.value.data[1][call.content.T] /= 0
    /\ ret.value.data[1][call.content.T + 1] = 0

\* C8: the dominant index is the first maximum of the 8-entry vector: no
\* entry is larger and every earlier entry is strictly smaller; the label
\* is the entry of the sorted label set at that index and the confidence
\* is the vector's entry there.
C8_FirstMaximum ==
    "metric" \in shown =>
        LET i == idx_max + 1
        IN /\ i \in 1..8
           /\ \A k \in 1..8 : prediction[k] <= prediction[i]
           /\ \A k \in 1..(i - 1) : prediction[k] < prediction[i]
           /\ emosi_dominan =
                  <<"angry", "calm", "disgust", "fearful", "happy",
                    "neutral", "sad", "surprised">>[i]
           /\ confidence = prediction[i]

\* Two equal maxima at 0-based indices 1 and 4: index 1 was selected.
C8_Witness ==
    /\ "metric" \in shown
    /\ prediction[1] < prediction[2]
    /\ prediction[2] = prediction[5]
    /\ \A k \in 1..8 : prediction[k] <= prediction[2]
    /\ idx_max = 1
    /\ emosi_dominan = "calm"

\* C9: get_feedback is total: each of the 8 known labels gets a non-empty
\* string, two different known labels get different strings, and every
\* label outside the known set gets the one fallback string.
C9_AdviseTotal ==
    ret.type = "returned" =>
        LET known == {"angry", "calm", "disgust", "fearful", "happy",
                      "neutral", "sad", "surprised"}
        IN IF call.label \in known
           THEN /\ ret.value /= ""
                /\ (/\ prev /= Unset
                    /\ prev.label \in known
                    /\ prev.label /= call.label) => prev.ret /= ret.value
           ELSE ret.value =
                    "Latih lagi artikulasi dan emosi agar lebih meyakinkan."

\* get_feedback("sad") and then get_feedback("calm") returned.
C9_Witness ==
    /\ ret.type = "returned"
    /\ prev /= Unset
    /\ prev.label = "sad"
    /\ call.label = "calm"
    /\ ret.value /= prev.ret

=============================================================================
